---------------------------- MODULE Spec2Model ----------------------------
(***************************************************************************)
(* A model of the Cotrix coupon API (douvy/cotrix).  The repository holds  *)
(* three snapshots of the same service:                                    *)
(*   - src/api/src/server.ts lines 1-326: the puppeteer service that       *)
(*     connects to a remote browser and runs two adapters concurrently     *)
(*     (deployment "server");                                              *)
(*   - src/unnamed/part_001: the older puppeteer service that launches a   *)
(*     local browser and scrapes one site sequentially (deployment         *)
(*     "snapshot");                                                        *)
(*   - src/api/src/server.ts lines 327-648: the axios/cheerio service with *)
(*     the one-hour result cache (the "cached" handler).                   *)
(* A JavaScript string is modelled as a sequence of one-character strings, *)
(* so that trimming, upper-casing, replacing and pattern matching are      *)
(* computed, not assumed.                                                  *)
(***************************************************************************)
EXTENDS Integers, Sequences, FiniteSets, TLC

\* the cached handler: the module-level cache, Date.now(), and the requests
VARIABLES cache, now, ticks, req

\* selectBestCodes on its own: the candidates collected, and the ranked list
VARIABLES rkPc, rkIn, rkOut

\* the puppeteer services: the handler, scrapeCoupons, the browser session,
\* the adapters and the pages they open
VARIABLES deployment, hpc, purl, resp, spc, browser, apc, ares, mainPage,
          popups, cards, card, popupCode, coupons

\* isPotentialCouponCode on its own: the text it is given and its answer
VARIABLES gcPc, gcCode, gcAccepted

\* concurrent invocations of scrapeCoupons: each one's position and local
\* variable browser, and the browser sessions ever connected
VARIABLES inv, sess

cvars == <<cache, now, ticks, req>>

rvars == <<rkPc, rkIn, rkOut>>

pvars == <<deployment, hpc, purl, resp, spc, browser, apc, ares, mainPage,
           popups, cards, card, popupCode, coupons>>

gvars == <<gcPc, gcCode, gcAccepted>>

svars == <<inv, sess>>

vars == <<cvars, rvars, pvars, gvars, svars>>

(***************************************************************************)
(* Strings                                                                 *)
(***************************************************************************)
LowerSeq ==
  <<"a","b","c","d","e","f","g","h","i","j","k","l","m",
    "n","o","p","q","r","s","t","u","v","w","x","y","z">>

UpperSeq ==
  <<"A","B","C","D","E","F","G","H","I","J","K","L","M",
    "N","O","P","Q","R","S","T","U","V","W","X","Y","Z">>

Lower == {LowerSeq[i] : i \in 1..26}

Upper == {UpperSeq[i] : i \in 1..26}

Digit == {"0","1","2","3","4","5","6","7","8","9"}

WhiteSpace == {" ", "\t", "\n"}

\* String.prototype.toUpperCase, one character
UpperChar(c) ==
  IF c \in Lower THEN UpperSeq[CHOOSE i \in 1..26 : LowerSeq[i] = c] ELSE c

\* String.prototype.toLowerCase, one character
LowerChar(c) ==
  IF c \in Upper THEN LowerSeq[CHOOSE i \in 1..26 : UpperSeq[i] = c] ELSE c

toUpperCase(s) == [i \in 1..Len(s) |-> UpperChar(s[i])]

toLowerCase(s) == [i \in 1..Len(s) |-> LowerChar(s[i])]

\* String.prototype.trim
trim(s) ==
  LET keep == {i \in 1..Len(s) : s[i] \notin WhiteSpace}
  IN  IF keep = {} THEN <<>>
      ELSE LET lo == CHOOSE i \in keep : \A j \in keep : i <= j
               hi == CHOOSE i \in keep : \A j \in keep : j <= i
           IN  SubSeq(s, lo, hi)

\* the positions at which pat occurs in s
Occurrences(s, pat) ==
  {i \in 1..(Len(s) - Len(pat) + 1) : SubSeq(s, i, i + Len(pat) - 1) = pat}

\* String.prototype.includes
includes(s, pat) == Occurrences(s, pat) # {}

\* String.prototype.replace with a string pattern: the first occurrence only
replaceFirst(s, pat, rep) ==
  LET occ == Occurrences(s, pat)
  IN  IF occ = {} THEN s
      ELSE LET i == CHOOSE k \in occ : \A j \in occ : k <= j
           IN  SubSeq(s, 1, i - 1) \o rep \o SubSeq(s, i + Len(pat), Len(s))

\* String.prototype.replace with a global regular expression of one literal
RECURSIVE replaceAll(_, _, _)
replaceAll(s, pat, rep) ==
  IF Occurrences(s, pat) = {} THEN s
  ELSE LET occ == Occurrences(s, pat)
           i   == CHOOSE k \in occ : \A j \in occ : k <= j
       IN  SubSeq(s, 1, i - 1) \o rep
             \o replaceAll(SubSeq(s, i + Len(pat), Len(s)), pat, rep)

AllIn(s, lo, hi, class) == \A i \in lo..hi : s[i] \in class

(***************************************************************************)
(* isPotentialCouponCode, server.ts 570-599                                *)
(***************************************************************************)
\* /^[A-Z0-9]{4,15}$/
PatBasic(s) == Len(s) >= 4 /\ Len(s) <= 15 /\ AllIn(s, 1, Len(s), Upper \cup Digit)

\* a faulty pattern /^SAVE.+$/: C29 fails with it
PatSave_anyTail(s) ==
  /\ Len(s) >= 5
  /\ SubSeq(s, 1, 4) = <<"S","A","V","E">>

\* /^SAVE\d+$/
PatSave(s) ==
  /\ Len(s) >= 5
  /\ SubSeq(s, 1, 4) = <<"S","A","V","E">>
  /\ AllIn(s, 5, Len(s), Digit)

\* /^NEW\d+$/
PatNew(s) ==
  /\ Len(s) >= 4
  /\ SubSeq(s, 1, 3) = <<"N","E","W">>
  /\ AllIn(s, 4, Len(s), Digit)

\* /^\d+OFF$/
PatOff(s) ==
  /\ Len(s) >= 4
  /\ SubSeq(s, Len(s) - 2, Len(s)) = <<"O","F","F">>
  /\ AllIn(s, 1, Len(s) - 3, Digit)

\* /^[A-Z]+\d+[A-Z]*$/
PatLettersDigitsLetters(s) ==
  \E i \in 1..Len(s) : \E j \in (i + 1)..Len(s) :
     /\ AllIn(s, 1, i, Upper)
     /\ AllIn(s, i + 1, j, Digit)
     /\ AllIn(s, j + 1, Len(s), Upper)

\* /^[A-Z]{2,}\d{2,}$/
PatLetters2Digits2(s) ==
  \E i \in 2..(Len(s) - 2) :
     /\ AllIn(s, 1, i, Upper)
     /\ AllIn(s, i + 1, Len(s), Digit)

patterns(s) ==
  \/ PatBasic(s)
  \/ PatSave(s)
  \/ PatNew(s)
  \/ PatOff(s)
  \/ PatLettersDigitsLetters(s)
  \/ PatLetters2Digits2(s)

blacklist ==
  { <<"D","O","C","T","Y","P","E">>, <<"H","T","T","P">>, <<"H","T","T","P","S">>,
    <<"H","T","M","L">>, <<"H","E","A","D">>, <<"B","O","D","Y">>,
    <<"S","C","R","I","P","T">>, <<"S","T","Y","L","E">>, <<"M","E","T","A">>,
    <<"L","I","N","K">>, <<"D","I","V">>, <<"S","P","A","N">> }

\* a faulty check without the blacklist: C11 fails with it
isPotentialCouponCode_noBlacklist(code) ==
  LET cleanCode == toUpperCase(trim(code))
  IN  /\ code # <<>>
      /\ Len(cleanCode) >= 4
      /\ Len(cleanCode) <= 15
      /\ patterns(cleanCode)

isPotentialCouponCode(code) ==
  LET cleanCode == toUpperCase(trim(code))
  IN  /\ code # <<>>
      /\ Len(cleanCode) >= 4
      /\ Len(cleanCode) <= 15
      /\ patterns(cleanCode)
      /\ \A term \in blacklist : ~includes(cleanCode, term)

(***************************************************************************)
(* URLs.  new URL(string) is the platform's WHATWG parser; the request     *)
(* bodies the model sends are the rows of this table, each with the        *)
(* hostname the parser gives it (NoHost: the parser throws; NoUrl: the     *)
(* body has no url).                                                       *)
(***************************************************************************)
NoUrl == "(absent)"

NoHost == <<"?">>

UrlTable ==
  [ u \in {"https://www.examplestore.com", "https://my-store.com",
           "https://welcome.com", "not a url", NoUrl} |->
      CASE u = "https://www.examplestore.com" ->
             <<"w","w","w",".","e","x","a","m","p","l","e","s","t","o","r","e",".","c","o","m">>
        [] u = "https://my-store.com" ->
             <<"m","y","-","s","t","o","r","e",".","c","o","m">>
        [] u = "https://welcome.com" ->
             <<"w","e","l","c","o","m","e",".","c","o","m">>
        [] OTHER -> NoHost ]

Bodies == DOMAIN UrlTable

\* isValidUrl, server.ts 601-608: new URL(string) does not throw
isValidUrl(u) == u # NoUrl /\ UrlTable[u] # NoHost

hostname(u) == UrlTable[u]

\* /\..+$/ replaced by "": cut at the first dot that has a character after it
cutAtFirstDot(s) ==
  LET dots == {i \in 1..(Len(s) - 1) : s[i] = "."}
  IN  IF dots = {} THEN s
      ELSE SubSeq(s, 1, (CHOOSE i \in dots : \A j \in dots : i <= j) - 1)

\* extractStoreName, server.ts 610-621
extractStoreName(u) ==
  IF ~isValidUrl(u) THEN <<>>
  ELSE toLowerCase(
         cutAtFirstDot(
           replaceFirst(
             replaceFirst(hostname(u), <<"w","w","w",".">>, <<>>),
             <<".","c","o","m">>, <<>>)))

\* a faulty generateCommonCodes with the store's code last: C12 fails with it
generateCommonCodes_storeLast(storeName) ==
  << <<"W","E","L","C","O","M","E","1","0">>,
     <<"S","A","V","E","1","5">>,
     toUpperCase(storeName) \o <<"1","0">> >>

\* generateCommonCodes, server.ts 562-568
generateCommonCodes(storeName) ==
  << toUpperCase(storeName) \o <<"1","0">>,
     <<"W","E","L","C","O","M","E","1","0">>,
     <<"S","A","V","E","1","5">> >>


(***************************************************************************)
(* selectBestCodes, server.ts 531-560.  A CouponCode is                    *)
(* [code, verified, source, discountPercent]; discountPercent stands for   *)
(* the percentage the offer's description text states (the description     *)
(* field of CouponCode, server.ts 349), which this service never parses.   *)
(***************************************************************************)
\* sourceRank[...] || 0, server.ts 549-557
sourceRank(source) ==
  CASE source = "retailmenot" -> 3
    [] source = "couponcabin" -> 2
    [] source = "promocodes"  -> 1
    [] source = "slickdeals"  -> 0
    [] OTHER -> 0

\* the comparator handed to sort, server.ts 544-558
compareCodes(a, b) ==
  IF a.verified /\ ~b.verified THEN -1
  ELSE IF ~a.verified /\ b.verified THEN 1
  ELSE sourceRank(b.source) - sourceRank(a.source)

\* a faulty step that never replaces a kept candidate: C9 fails with it
uniqueStep_keepFirst(unique, code) ==
  IF \E i \in 1..Len(unique) : unique[i].code = code.code
    THEN unique
    ELSE Append(unique, code)

\* uniqueCodes after one step of the forEach, server.ts 535-540: a Map keeps
\* a key at the position of its first insertion
uniqueStep(unique, code) ==
  LET at == {i \in 1..Len(unique) : unique[i].code = code.code}
  IN  IF at = {} THEN Append(unique, code)
      ELSE LET i == CHOOSE k \in at : TRUE
           IN  IF code.verified /\ ~unique[i].verified
                 THEN [unique EXCEPT ![i] = code]
                 ELSE unique

RECURSIVE uniqueCodes(_)
uniqueCodes(codes) ==
  IF codes = <<>> THEN <<>>
  ELSE uniqueStep(uniqueCodes(SubSeq(codes, 1, Len(codes) - 1)), codes[Len(codes)])

\* Array.prototype.sort is stable: x goes before the first element it must precede
insertSorted(sorted, x) ==
  LET after == {i \in 1..Len(sorted) : compareCodes(x, sorted[i]) < 0}
      k     == IF after = {} THEN Len(sorted) + 1
               ELSE CHOOSE i \in after : \A j \in after : i <= j
  IN  SubSeq(sorted, 1, k - 1) \o <<x>> \o SubSeq(sorted, k, Len(sorted))

RECURSIVE sortCodes(_)
sortCodes(codes) ==
  IF codes = <<>> THEN <<>>
  ELSE insertSorted(sortCodes(SubSeq(codes, 1, Len(codes) - 1)), codes[Len(codes)])

\* .slice(0, 3)
slice3(s) == SubSeq(s, 1, IF Len(s) < 3 THEN Len(s) ELSE 3)

selectBestCodes(codes) == slice3(sortCodes(uniqueCodes(codes)))

\* bestCodes.map(code => code.code)
codesOf(best) == [i \in 1..Len(best) |-> best[i].code]

(***************************************************************************)
(* scrapeCouponCodes, server.ts 429-529.  What the four aggregator sites   *)
(* answer is the environment's choice: a Fetched record gives, per source, *)
(* whether the GET failed and the elements the selectors matched (the raw  *)
(* code text and the verified marker), and the order in which the three    *)
(* concurrent GETs completed.  retailmenot is fetched after the three.     *)
(***************************************************************************)
Sources == {"couponcabin", "slickdeals", "promocodes"}

\* the body of one source's .each callback, server.ts 478-495 (and 511-523)
RECURSIVE sourceCodes(_, _)
sourceCodes(name, elems) ==
  IF elems = <<>> THEN <<>>
  ELSE LET e    == elems[Len(elems)]
           rest == sourceCodes(name, SubSeq(elems, 1, Len(elems) - 1))
       IN  IF e.code # <<>> /\ isPotentialCouponCode(e.code)
             THEN Append(rest, [code            |-> toUpperCase(e.code),
                                verified        |-> IF name = "retailmenot" THEN TRUE
                                                    ELSE e.verified,
                                source          |-> name,
                                discountPercent |-> e.discountPercent])
             ELSE rest

\* one GET and its try/catch, server.ts 467-500 and 505-526
fetchCodes(f, name) ==
  IF name \in f.failed THEN <<>> ELSE sourceCodes(name, f.pages[name])

scrapeCouponCodes(f) ==
  fetchCodes(f, f.order[1]) \o fetchCodes(f, f.order[2]) \o fetchCodes(f, f.order[3])
    \o fetchCodes(f, "retailmenot")

Elem(code, verified, pct) ==
  [code |-> code, verified |-> verified, discountPercent |-> pct]

SAVE10 == <<"S","A","V","E","1","0">>

DEAL20 == <<"D","E","A","L","2","0">>

SAVE15 == <<"S","A","V","E","1","5">>

WELCOME10 == <<"W","E","L","C","O","M","E","1","0">>

EXAMPLESTORE10 == <<"E","X","A","M","P","L","E","S","T","O","R","E","1","0">>

RawSave10 == <<"s","a","v","e","1","0">>

RawDoctype == <<"d","o","c","t","y","p","e">>

NoPages == [n \in Sources \cup {"retailmenot"} |-> <<>>]

\* the answers of the sites the model draws from
FetchChoices ==
  { \* every GET fails
    [order  |-> <<"couponcabin", "slickdeals", "promocodes">>,
     failed |-> Sources \cup {"retailmenot"},
     pages  |-> NoPages],
    \* every page loads and none holds a code; one holds markup text
    [order  |-> <<"slickdeals", "couponcabin", "promocodes">>,
     failed |-> {},
     pages  |-> [NoPages EXCEPT !["promocodes"] = <<Elem(RawDoctype, FALSE, 0)>>]],
    \* two sources list the same code, one of them verified; retailmenot fails
    [order  |-> <<"couponcabin", "promocodes", "slickdeals">>,
     failed |-> {"promocodes", "retailmenot"},
     pages  |-> [NoPages EXCEPT !["couponcabin"] = <<Elem(SAVE10, FALSE, 10)>>,
                                !["slickdeals"]  = <<Elem(RawSave10, TRUE, 10)>>]],
    \* retailmenot alone answers
    [order  |-> <<"promocodes", "slickdeals", "couponcabin">>,
     failed |-> Sources,
     pages  |-> [NoPages EXCEPT !["retailmenot"] = <<Elem(DEAL20, FALSE, 20)>>]],
    \* retailmenot lists the store's own code and two common ones
    [order  |-> <<"couponcabin", "slickdeals", "promocodes">>,
     failed |-> Sources,
     pages  |-> [NoPages EXCEPT !["retailmenot"] =
                   << Elem(EXAMPLESTORE10, FALSE, 10), Elem(WELCOME10, FALSE, 10),
                      Elem(SAVE15, FALSE, 15) >>]] }

(***************************************************************************)
(* The result cache, server.ts 355-356 and 623-640                         *)
(***************************************************************************)
CACHE_DURATION == 1000 * 60 * 60

NoBody == "(no body)"

CacheBodies ==
  {"https://www.examplestore.com", "https://my-store.com", "not a url", NoUrl, NoBody}

CacheKeys == {u \in CacheBodies : u # NoBody /\ isValidUrl(u)}

\* cache.get(url) === undefined; writer names the request that stored an entry
NoEntry == [data |-> <<>>, timestamp |-> -1, writer |-> 0]

\* a faulty getCachedResult that takes the ttl in seconds: C4 fails with it
getCachedResult_ttlInSeconds(c, url, t) ==
  LET cached == c[url]
  IN  IF cached = NoEntry
        THEN [found |-> FALSE, data |-> <<>>, cache |-> c]
      ELSE IF t - cached.timestamp > 60 * 60
        THEN [found |-> FALSE, data |-> <<>>, cache |-> [c EXCEPT ![url] = NoEntry]]
      ELSE [found |-> TRUE, data |-> cached.data, cache |-> c]

\* a faulty getCachedResult that never expires an entry: C5 fails with it
getCachedResult_noExpiry(c, url, t) ==
  LET cached == c[url]
  IN  IF cached = NoEntry
        THEN [found |-> FALSE, data |-> <<>>, cache |-> c]
      ELSE [found |-> TRUE, data |-> cached.data, cache |-> c]

\* a faulty cacheResult that stamps every entry with time 0: C6 fails with it
cacheResult_noTimestamp(c, url, data, t, w) ==
  [c EXCEPT ![url] = [data |-> data, timestamp |-> 0, writer |-> w]]

\* getCachedResult, server.ts 623-633: the result and the cache it leaves
getCachedResult(c, url, t) ==
  LET cached == c[url]
  IN  IF cached = NoEntry
        THEN [found |-> FALSE, data |-> <<>>, cache |-> c]
      ELSE IF t - cached.timestamp > CACHE_DURATION
        THEN [found |-> FALSE, data |-> <<>>, cache |-> [c EXCEPT ![url] = NoEntry]]
      ELSE [found |-> TRUE, data |-> cached.data, cache |-> c]

\* a faulty cacheResult that stores the list without its first code: C27
\* fails with it
cacheResult_storesTail(c, url, data, t, w) ==
  [c EXCEPT ![url] = [data |-> Tail(data), timestamp |-> t, writer |-> w]]

\* a faulty cacheResult that replaces the whole map: C28 fails with it
cacheResult_clearsOthers(c, url, data, t, w) ==
  [u \in DOMAIN c |->
     IF u = url THEN [data |-> data, timestamp |-> t, writer |-> w] ELSE NoEntry]

\* cacheResult, server.ts 635-640
cacheResult(c, url, data, t, w) ==
  [c EXCEPT ![url] = [data |-> data, timestamp |-> t, writer |-> w]]

(***************************************************************************)
(* app.post('/api/coupons'), server.ts 374-427.  Express runs a handler    *)
(* until its first await; handlers of different requests interleave at     *)
(* the awaits.  A request record keeps the handler's locals and response,  *)
(* and what the handler saw: seen is the entry cache.get returned, live    *)
(* the earlier requests for the same url whose cache write was at most     *)
(* CACHE_DURATION old when this one arrived, wroteAt the time of its own   *)
(* cache write (-1: none), origin the branch that produced its list        *)
(* (discovered: lines 400-403 and 410-413; placeholder: 417-419).          *)
(***************************************************************************)
MaxReq == 3

MaxTicks == 2

Request(u, t) ==
  [url |-> u, pc |-> "done", status |-> 0, body |-> <<>>, calls |-> 0,
   seen |-> NoEntry, wroteAt |-> -1, origin |-> "none",
   live |-> {i \in 1..Len(req) : /\ req[i].url = u
                                 /\ req[i].wroteAt >= 0
                                 /\ t - req[i].wroteAt <= CACHE_DURATION}]

\* res.status(s).json({error}) and res.json(codes)
Respond(r, s, codes) == [r EXCEPT !.pc = "done", !.status = s, !.body = codes]

\* a faulty altStoreName that keeps the hyphens: C21 fails with it
altStoreName_keepsHyphens(storeName) == storeName

\* storeName.replace(/-/g, ''), server.ts 406
altStoreName(storeName) == replaceAll(storeName, <<"-">>, <<>>)

\* server.ts 400-403, 410-413, 417-419: store the list, answer with it
Finish(i, codes, origin) ==
  /\ cache' = cacheResult(cache, req[i].url, codes, now, i)
  /\ req' = [req EXCEPT ![i] = [Respond(@, 200, codes) EXCEPT !.wroteAt = now,
                                                              !.origin = origin]]

\* server.ts 374-394: from the arrival of a request to its first await
post_api_coupons(u) ==
  /\ Len(req) < MaxReq
  /\ UNCHANGED <<now, ticks, rvars, pvars, gvars, svars>>
  /\ LET r == Request(u, now)
     IN  IF u = NoBody
           \* const { url } = req.body with no parsed body: Express 4 leaves {}
           \* (url undefined, 400), Express 5 leaves undefined (TypeError, 500)
           THEN /\ \E s \in {400, 500} : req' = Append(req, Respond(r, s, <<>>))
                /\ UNCHANGED cache
         ELSE IF u = NoUrl \/ ~isValidUrl(u)
           THEN /\ req' = Append(req, Respond(r, 400, <<>>))
                /\ UNCHANGED cache
         ELSE LET got == getCachedResult(cache, u, now)
                  r1  == [r EXCEPT !.seen = cache[u]]
              IN  /\ cache' = got.cache
                  /\ IF got.found
                       THEN req' = Append(req, Respond(r1, 200, got.data))
                       ELSE req' = Append(req, [r1 EXCEPT !.pc = "scrape",
                                                          !.calls = 1])

\* server.ts 394-419: scrapeCouponCodes(storeName, url) has returned
scrape_returns(i, f) ==
  /\ i \in 1..Len(req)
  /\ req[i].pc = "scrape"
  /\ UNCHANGED <<now, ticks, rvars, pvars, gvars, svars>>
  /\ LET storeName == extractStoreName(req[i].url)
         bestCodes == selectBestCodes(scrapeCouponCodes(f))
     IN  IF Len(bestCodes) > 0
           THEN Finish(i, codesOf(bestCodes), "discovered")
         ELSE IF altStoreName(storeName) # storeName
           THEN /\ req' = [req EXCEPT ![i].pc = "altScrape", ![i].calls = @ + 1]
                /\ UNCHANGED cache
         ELSE Finish(i, generateCommonCodes(storeName), "placeholder")

\* server.ts 408-419: scrapeCouponCodes(altStoreName, url) has returned
altScrape_returns(i, f) ==
  /\ i \in 1..Len(req)
  /\ req[i].pc = "altScrape"
  /\ UNCHANGED <<now, ticks, rvars, pvars, gvars, svars>>
  /\ LET storeName   == extractStoreName(req[i].url)
         altBestCodes == selectBestCodes(scrapeCouponCodes(f))
     IN  IF Len(altBestCodes) > 0
           THEN Finish(i, codesOf(altBestCodes), "discovered")
           ELSE Finish(i, generateCommonCodes(storeName), "placeholder")

\* Date.now() advances, by a millisecond or by the cache duration
Tick(d) ==
  /\ ticks < MaxTicks
  /\ now' = now + d
  /\ ticks' = ticks + 1
  /\ UNCHANGED <<cache, req, rvars, pvars, gvars, svars>>

CacheInit ==
  /\ cache = [u \in CacheKeys |-> NoEntry]
  /\ now = 0
  /\ ticks = 0
  /\ req = <<>>

CacheNext ==
  \/ \E u \in CacheBodies : post_api_coupons(u)
  \/ \E i \in 1..MaxReq : \E f \in FetchChoices : scrape_returns(i, f)
  \/ \E i \in 1..MaxReq : \E f \in FetchChoices : altScrape_returns(i, f)
  \/ \E d \in {1, CACHE_DURATION} : Tick(d)

(***************************************************************************)
(* selectBestCodes on lists of candidates as scrapeCouponCodes collects    *)
(* them: upper-cased codes, pushed one at a time; retailmenot's are always *)
(* verified (server.ts 519).                                               *)
(***************************************************************************)
MaxCands == 4

FREESHIP == <<"F","R","E","E","S","H","I","P">>

NEW25 == <<"N","E","W","2","5">>

Cand(c, v, src, pct) ==
  [code |-> c, verified |-> v, source |-> src, discountPercent |-> pct]

RankOffers ==
  { Cand(SAVE10, FALSE, "couponcabin", 10), Cand(SAVE10, TRUE, "slickdeals", 10),
    Cand(SAVE10, TRUE, "retailmenot", 10),  Cand(SAVE10, FALSE, "promocodes", 10),
    Cand(DEAL20, TRUE, "slickdeals", 20),   Cand(DEAL20, FALSE, "couponcabin", 20),
    Cand(FREESHIP, TRUE, "promocodes", 0),
    Cand(NEW25, TRUE, "couponcabin", 25),   Cand(NEW25, FALSE, "slickdeals", 25) }

\* allCodes.push(...), server.ts 488-493 and 516-521
rk_push(o) ==
  /\ rkPc = "collect"
  /\ Len(rkIn) < MaxCands
  /\ rkIn' = Append(rkIn, o)
  /\ UNCHANGED <<rkPc, rkOut, cvars, pvars, gvars, svars>>

\* const bestCodes = selectBestCodes(codes), server.ts 397
rk_select ==
  /\ rkPc = "collect"
  /\ rkOut' = selectBestCodes(rkIn)
  /\ rkPc' = "ranked"
  /\ UNCHANGED <<rkIn, cvars, pvars, gvars, svars>>

RankInit ==
  /\ rkPc = "collect"
  /\ rkIn = <<>>
  /\ rkOut = <<>>

RankNext ==
  \/ \E o \in RankOffers : rk_push(o)
  \/ rk_select

(***************************************************************************)
(* isPotentialCouponCode on texts as the scrapers hand them to it: a text  *)
(* a page shows, with any characters that follow it in the element.        *)
(***************************************************************************)
MaxTyped == 2

OFF10 == <<"1","0","O","F","F">>

DOCTYPE == <<"D","O","C","T","Y","P","E">>

HTTP == <<"H","T","T","P">>

AB == <<"A","B">>

\* the texts an element starts with
CodeTexts ==
  { <<>>, SAVE15, WELCOME10, OFF10, DOCTYPE, HTTP, AB, RawSave10, RawDoctype,
    <<" ">> \o SAVE10, <<"M","Y","-","S","T","O","R","E","1","0">>,
    <<"S","U","M","M","E","R","S","A","L","E","2","0","2","4","X">>, NEW25, FREESHIP }

\* the characters that may follow
TypedChars == {"A", "5", "n", "-", " "}

\* one more character of the element's text
gc_type(ch) ==
  /\ gcPc = "text"
  /\ \E base \in CodeTexts :
        /\ Len(gcCode) >= Len(base)
        /\ Len(gcCode) < Len(base) + MaxTyped
        /\ SubSeq(gcCode, 1, Len(base)) = base
  /\ gcCode' = Append(gcCode, ch)
  /\ UNCHANGED <<gcPc, gcAccepted, cvars, rvars, pvars, svars>>

\* if (code && isPotentialCouponCode(code)), server.ts 482
gc_check ==
  /\ gcPc = "text"
  /\ gcAccepted' = isPotentialCouponCode(gcCode)
  /\ gcPc' = "checked"
  /\ UNCHANGED <<gcCode, cvars, rvars, pvars, svars>>

GrammarInit ==
  /\ gcPc = "text"
  /\ gcCode \in CodeTexts
  /\ gcAccepted = FALSE

GrammarNext ==
  \/ \E ch \in TypedChars : gc_type(ch)
  \/ gc_check

(***************************************************************************)
(* The puppeteer services.  Every awaited call on the browser or a page is *)
(* a step whose outcome the environment picks; once browser.close() has    *)
(* been called, every later call on that browser or its pages rejects.     *)
(* A page is [opened, closes]: closes counts the calls of page.close().    *)
(***************************************************************************)
MaxCards == 2

Adapters == {"couponsDotCom", "couponFollow"}

\* null, as handleVoucherCard and the adapters return it
NoCoupon == [code |-> <<>>, source |-> "", isVerified |-> FALSE, discountPercent |-> 0]

Coupon(c, src, v, pct) ==
  [code |-> c, source |-> src, isVerified |-> v, discountPercent |-> pct]

NoPage == [opened |-> FALSE, closes |-> 0]

NoBrowser == [acquired |-> FALSE, closes |-> 0, listeners |-> 0]

NoResponse == [status |-> 0, body |-> <<>>]

\* what the popup of a coupons.com card shows, with what its description says
CardOffers == { Coupon(SAVE10, "coupons.com", FALSE, 10),
                Coupon(DEAL20, "coupons.com", TRUE, 20) }

\* the offers page.evaluate reads from couponfollow.com: code, verified, discount
FollowOffers ==
  { <<>>,
    << Coupon(SAVE10, "couponfollow.com", TRUE, 10) >>,
    << Coupon(FREESHIP, "couponfollow.com", TRUE, 0),
       Coupon(SAVE10, "couponfollow.com", FALSE, 10),
       Coupon(DEAL20, "couponfollow.com", FALSE, 20) >> }

PupBodies == {"https://www.examplestore.com", "not a url", NoUrl}

BrowserOpen == browser.acquired /\ browser.closes = 0

Outcomes == IF BrowserOpen THEN {"ok", "fail"} ELSE {"fail"}

\* the comparator of server.ts 221-224 and 260-263
compareCoupons(a, b) ==
  IF a.isVerified # b.isVerified THEN (IF b.isVerified THEN 1 ELSE -1)
  ELSE b.discountPercent - a.discountPercent

insertCoupon(sorted, x) ==
  LET after == {i \in 1..Len(sorted) : compareCoupons(x, sorted[i]) < 0}
      k     == IF after = {} THEN Len(sorted) + 1
               ELSE CHOOSE i \in after : \A j \in after : i <= j
  IN  SubSeq(sorted, 1, k - 1) \o <<x>> \o SubSeq(sorted, k, Len(sorted))

RECURSIVE sortCoupons(_)
sortCoupons(cs) ==
  IF cs = <<>> THEN <<>>
  ELSE insertCoupon(sortCoupons(SubSeq(cs, 1, Len(cs) - 1)), cs[Len(cs)])

\* .filter(code => Boolean(code)) and .filter(offer => offer.code && offer.discount > 0)
IsCoupon(c) == c # NoCoupon

IsValidOffer(o) == o.code # <<>> /\ o.discountPercent > 0

\* validOffers[0] of scrapeCouponFollow, server.ts 219-237
bestOffer(offers) ==
  LET validOffers == sortCoupons(SelectSeq(offers, IsValidOffer))
  IN  IF validOffers = <<>> THEN NoCoupon ELSE validOffers[1]

\* validCoupons of scrapeCoupons, server.ts 258-263
validCoupons(a, b) == sortCoupons(SelectSeq(<<a, b>>, IsCoupon))

\* coupons.map(coupon => coupon.code)
couponCodes(cs) == [i \in 1..Len(cs) |-> cs[i].code]

\* the finally of an adapter, server.ts 182-184 and 241-243: page.close() is called
EnterFinally(a, result) ==
  /\ apc' = [apc EXCEPT ![a] = "closePage"]
  /\ ares' = [ares EXCEPT ![a] = result]
  /\ mainPage' = [mainPage EXCEPT ![a].closes = @ + 1]

\* a faulty finally that leaves the browser alone: C2 fails with it
scrapeCoupons_finally_noClose(b) == b

\* the finally of scrapeCoupons, server.ts 270-279: if (browser) browser.close()
scrapeCoupons_finally(b) ==
  IF b.acquired THEN [b EXCEPT !.closes = @ + 1] ELSE b

\* app.post('/api/coupons'), server.ts 290-295
post_api_coupons_server(u) ==
  /\ deployment = "server"
  /\ hpc = "idle"
  /\ purl' = u
  /\ IF u = NoUrl
       THEN /\ resp' = [status |-> 400, body |-> <<>>]
            /\ hpc' = "responded"
            /\ UNCHANGED spc
       ELSE /\ hpc' = "running"
            /\ spc' = "connect"
            /\ UNCHANGED resp
  /\ UNCHANGED <<deployment, browser, apc, ares, mainPage, popups, cards, card,
                 popupCode, coupons, cvars, rvars, gvars, svars>>

\* initializeBrowser, server.ts 19-36, and what scrapeCoupons does with it,
\* server.ts 250-256 and 267-270: both adapters start, or the catch returns []
initializeBrowser_server(o) ==
  /\ deployment = "server"
  /\ spc = "connect"
  /\ IF o = "ok"
       THEN /\ browser' = [acquired |-> TRUE, closes |-> 0, listeners |-> 0]
            /\ apc' = [a \in Adapters |-> "newPage"]
            /\ spc' = "all"
            /\ UNCHANGED <<hpc, resp>>
       ELSE /\ spc' = "returned"
            /\ browser' = scrapeCoupons_finally(browser)
            /\ resp' = [status |-> 200, body |-> <<>>]
            /\ hpc' = "responded"
            /\ UNCHANGED apc
  /\ UNCHANGED <<deployment, purl, ares, mainPage, popups, cards, card, popupCode,
                 coupons, cvars, rvars, gvars, svars>>

\* initializePage, server.ts 38-66, called before the try of each adapter
\* (146, 188); after it the adapter parses the store url (148, 190)
initializePage(a, o) ==
  /\ deployment = "server"
  /\ apc[a] \in {"newPage", "intercept", "userAgent"}
  /\ o \in Outcomes
  /\ IF o = "fail"
       THEN /\ apc' = [apc EXCEPT ![a] = "rejected"]
            /\ UNCHANGED <<ares, mainPage>>
     ELSE IF apc[a] = "newPage"
       THEN /\ mainPage' = [mainPage EXCEPT ![a] = [opened |-> TRUE, closes |-> 0]]
            /\ apc' = [apc EXCEPT ![a] = "intercept"]
            /\ UNCHANGED ares
     ELSE IF apc[a] = "intercept"
       THEN /\ apc' = [apc EXCEPT ![a] = "userAgent"]
            /\ UNCHANGED <<ares, mainPage>>
     ELSE IF isValidUrl(purl)
       THEN /\ apc' = [apc EXCEPT ![a] = "goto"]
            /\ UNCHANGED <<ares, mainPage>>
       ELSE EnterFinally(a, NoCoupon)
  /\ UNCHANGED <<deployment, hpc, purl, resp, spc, browser, popups, cards, card,
                 popupCode, coupons, cvars, rvars, gvars, svars>>

\* page.goto and page.waitForSelector, server.ts 155-158 and 194-197
navigate(a, o) ==
  /\ deployment = "server"
  /\ apc[a] \in {"goto", "waitSel"}
  /\ o \in Outcomes
  /\ IF o = "fail" THEN EnterFinally(a, NoCoupon)
     ELSE /\ apc' = [apc EXCEPT ![a] =
                       IF apc[a] = "goto" THEN "waitSel"
                       ELSE IF a = "couponsDotCom" THEN "query" ELSE "evalOffers"]
          /\ UNCHANGED <<ares, mainPage>>
  /\ UNCHANGED <<deployment, hpc, purl, resp, spc, browser, popups, cards, card,
                 popupCode, coupons, cvars, rvars, gvars, svars>>

\* scrapeCouponFollow after page.evaluate, server.ts 199-240
followOffers(o, offers) ==
  /\ deployment = "server"
  /\ apc["couponFollow"] = "evalOffers"
  /\ o \in Outcomes
  /\ EnterFinally("couponFollow", IF o = "fail" THEN NoCoupon ELSE bestOffer(offers))
  /\ UNCHANGED <<deployment, hpc, purl, resp, spc, browser, popups, cards, card,
                 popupCode, coupons, cvars, rvars, gvars, svars>>

\* scrapeCouponsDotCom after page.$$, server.ts 160-169
queryCards(o, n) ==
  /\ deployment = "server"
  /\ apc["couponsDotCom"] = "query"
  /\ o \in Outcomes
  /\ IF o = "fail" \/ n = 0
       THEN /\ EnterFinally("couponsDotCom", NoCoupon)
            /\ UNCHANGED <<cards, card>>
       ELSE /\ cards' = n
            /\ card' = 1
            /\ apc' = [apc EXCEPT !["couponsDotCom"] = "evaluate"]
            /\ UNCHANGED <<ares, mainPage>>
  /\ UNCHANGED <<deployment, hpc, purl, resp, spc, browser, popups, popupCode, coupons,
                 cvars, rvars, gvars, svars>>

\* handleVoucherCard has returned couponData, server.ts 168-173
CardReturns(couponData) ==
  IF couponData # NoCoupon \/ card >= cards
    THEN /\ EnterFinally("couponsDotCom", couponData)
         /\ UNCHANGED card
    ELSE /\ card' = card + 1
         /\ apc' = [apc EXCEPT !["couponsDotCom"] = "evaluate"]
         /\ UNCHANGED <<ares, mainPage>>

\* handleVoucherCard up to the click, server.ts 88-117: card.evaluate, card.$,
\* browser.once('targetcreated') and seeButton.click()
cardLookup(o, present) ==
  /\ deployment = "server"
  /\ apc["couponsDotCom"] \in {"evaluate", "button"}
  /\ o \in Outcomes
  /\ IF o = "fail" \/ ~present
       THEN CardReturns(NoCoupon) /\ UNCHANGED browser
     ELSE IF apc["couponsDotCom"] = "evaluate"
       THEN /\ apc' = [apc EXCEPT !["couponsDotCom"] = "button"]
            /\ UNCHANGED <<ares, mainPage, card, browser>>
       ELSE /\ browser' = [browser EXCEPT !.listeners = @ + 1]
            /\ apc' = [apc EXCEPT !["couponsDotCom"] = "click"]
            /\ UNCHANGED <<ares, mainPage, card>>
  /\ UNCHANGED <<deployment, hpc, purl, resp, spc, popups, cards, popupCode, coupons,
                 cvars, rvars, gvars, svars>>

\* the browser emits 'targetcreated', server.ts 111-114: every once-listener
\* runs and is removed; a target with a page resolves newPagePromise
targetcreated(kind) ==
  /\ deployment = "server"
  /\ BrowserOpen
  /\ browser.listeners > 0
  /\ apc["couponsDotCom"] \in {"click", "popup"}
  /\ browser' = [browser EXCEPT !.listeners = 0]
  /\ IF kind = "page"
       THEN /\ popups' = Append(popups, [opened |-> TRUE, closes |-> 0])
            /\ apc' = [apc EXCEPT !["couponsDotCom"] =
                         IF @ = "click" THEN "clickPopupOpen" ELSE "front"]
       ELSE UNCHANGED <<popups, apc>>
  /\ UNCHANGED <<deployment, hpc, purl, resp, spc, ares, mainPage, cards, card,
                 popupCode, coupons, cvars, rvars, gvars, svars>>

\* seeButton.click() settles, server.ts 117-118
cardClick(o) ==
  /\ deployment = "server"
  /\ apc["couponsDotCom"] \in {"click", "clickPopupOpen"}
  /\ o \in Outcomes
  /\ IF o = "fail" THEN CardReturns(NoCoupon)
     ELSE /\ apc' = [apc EXCEPT !["couponsDotCom"] =
                       IF @ = "click" THEN "popup" ELSE "front"]
          /\ UNCHANGED <<ares, mainPage, card>>
  /\ UNCHANGED <<deployment, hpc, purl, resp, spc, browser, popups, cards, popupCode,
                 coupons, cvars, rvars, gvars, svars>>

\* popupPage.bringToFront(), server.ts 119
cardFront(o) ==
  /\ deployment = "server"
  /\ apc["couponsDotCom"] = "front"
  /\ o \in Outcomes
  /\ IF o = "fail" THEN CardReturns(NoCoupon)
     ELSE /\ apc' = [apc EXCEPT !["couponsDotCom"] = "extract"]
          /\ UNCHANGED <<ares, mainPage, card>>
  /\ UNCHANGED <<deployment, hpc, purl, resp, spc, browser, popups, cards, popupCode,
                 coupons, cvars, rvars, gvars, svars>>

\* extractCodeFromPopup, server.ts 68-85, then popupPage.close() is called, 122
cardExtract(c) ==
  /\ deployment = "server"
  /\ apc["couponsDotCom"] = "extract"
  /\ c = NoCoupon \/ BrowserOpen
  /\ popupCode' = c
  /\ popups' = [popups EXCEPT ![Len(popups)].closes = @ + 1]
  /\ apc' = [apc EXCEPT !["couponsDotCom"] = "closePopup"]
  /\ UNCHANGED <<deployment, hpc, purl, resp, spc, browser, ares, mainPage, cards,
                 card, coupons, cvars, rvars, gvars, svars>>

\* popupPage.close() settles, server.ts 122-142
cardClosePopup(o) ==
  /\ deployment = "server"
  /\ apc["couponsDotCom"] = "closePopup"
  /\ o \in Outcomes
  /\ CardReturns(IF o = "fail" THEN NoCoupon ELSE popupCode)
  /\ popupCode' = NoCoupon
  /\ UNCHANGED <<deployment, hpc, purl, resp, spc, browser, popups, cards, coupons,
                 cvars, rvars, gvars, svars>>

\* page.close() in the finally of an adapter settles, server.ts 182-184, 241-243
closePage(a, o) ==
  /\ deployment = "server"
  /\ apc[a] = "closePage"
  /\ o \in Outcomes
  /\ apc' = [apc EXCEPT ![a] = IF o = "ok" THEN "fulfilled" ELSE "rejected"]
  /\ UNCHANGED <<deployment, hpc, purl, resp, spc, browser, ares, mainPage, popups,
                 cards, card, popupCode, coupons, cvars, rvars, gvars, svars>>

\* Promise.all settles, server.ts 253-270: fulfilled when both adapters are,
\* rejected as soon as one is; then the finally calls browser.close()
PromiseAll_settles ==
  /\ deployment = "server"
  /\ spc = "all"
  /\ \/ \A a \in Adapters : apc[a] = "fulfilled"
     \/ \E a \in Adapters : apc[a] = "rejected"
  /\ coupons' = IF \E a \in Adapters : apc[a] = "rejected" THEN <<>>
                ELSE validCoupons(ares["couponsDotCom"], ares["couponFollow"])
  /\ browser' = scrapeCoupons_finally(browser)
  /\ spc' = "close"
  /\ UNCHANGED <<deployment, hpc, purl, resp, apc, ares, mainPage, popups, cards,
                 card, popupCode, cvars, rvars, gvars, svars>>

\* browser.close() settles (a rejection is logged), scrapeCoupons returns and
\* the handler answers, server.ts 271-279 and 297-304
browserClose_server(o) ==
  /\ deployment = "server"
  /\ spc = "close"
  /\ o \in {"ok", "fail"}
  /\ spc' = "returned"
  /\ resp' = [status |-> 200, body |-> couponCodes(coupons)]
  /\ hpc' = "responded"
  /\ UNCHANGED <<deployment, purl, browser, apc, ares, mainPage, popups, cards,
                 card, popupCode, coupons, cvars, rvars, gvars, svars>>

(***************************************************************************)
(* The earlier service, src/unnamed/part_001: one local browser per        *)
(* request, one page, the cards handled one after the other.  Its position *)
(* is kept in apc["couponsDotCom"], its page in mainPage["couponsDotCom"]. *)
(***************************************************************************)
SliceCards == 5

MaxCoupons == 3

Min(a, b) == IF a < b THEN a ELSE b

\* /^[A-Z0-9-]{4,15}$/, part_001 134
PatFallback(s) ==
  /\ Len(s) >= 4
  /\ Len(s) <= 15
  /\ AllIn(s, 1, Len(s), Upper \cup Digit \cup {"-"})

\* the trimmed texts of the h3, span and div elements of a page without cards
FallbackTexts ==
  { <<>>,
    << RawSave10 >>,
    << SAVE10, SAVE10 >>,
    << DOCTYPE, SAVE10 >>,
    << SAVE10, RawDoctype, DEAL20, FREESHIP, NEW25 >> }

\* fallbackCodes, part_001 131-136
fallbackCodes(texts) ==
  LET kept == SelectSeq(texts, PatFallback)
  IN  [i \in 1..Len(kept) |-> Coupon(kept[i], "Fallback code", FALSE, 0)]

\* an exit of scrapeCoupons after the browser was launched, part_001 154-160:
\* the finally calls browser.close() and awaits it
ScrapeExits(how, result) ==
  /\ spc' = how
  /\ coupons' = result
  /\ browser' = [browser EXCEPT !.closes = @ + 1]
  /\ apc' = [apc EXCEPT !["couponsDotCom"] = "done"]

\* app.post('/api/coupons'), part_001 167-172
post_api_coupons_snapshot(u) ==
  /\ deployment = "snapshot"
  /\ hpc = "idle"
  /\ purl' = u
  /\ IF u = NoUrl
       THEN /\ resp' = [status |-> 400, body |-> <<>>]
            /\ hpc' = "responded"
            /\ UNCHANGED spc
       ELSE /\ hpc' = "running"
            /\ spc' = "launch"
            /\ UNCHANGED resp
  /\ UNCHANGED <<deployment, browser, apc, ares, mainPage, popups, cards, card,
                 popupCode, coupons, cvars, rvars, gvars, svars>>

\* initializeBrowser, part_001 15-25, awaited outside the try of scrapeCoupons
\* (118); a failed launch reaches the catch of the handler (180-183)
initializeBrowser_snapshot(o) ==
  /\ deployment = "snapshot"
  /\ spc = "launch"
  /\ IF o = "ok"
       THEN /\ browser' = [acquired |-> TRUE, closes |-> 0, listeners |-> 0]
            /\ apc' = [apc EXCEPT !["couponsDotCom"] = "newPage"]
            /\ spc' = "main"
            /\ UNCHANGED <<hpc, resp>>
       ELSE /\ spc' = "returned"
            /\ resp' = [status |-> 500, body |-> <<>>]
            /\ hpc' = "responded"
            /\ UNCHANGED <<browser, apc>>
  /\ UNCHANGED <<deployment, purl, ares, mainPage, popups, cards, card, popupCode,
                 coupons, cvars, rvars, gvars, svars>>

\* initializePage, part_001 27-41, then new URL(storeUrl), 121
initializePage_snapshot(o) ==
  /\ deployment = "snapshot"
  /\ apc["couponsDotCom"] \in {"newPage", "viewport", "intercept", "userAgent"}
  /\ o \in Outcomes
  /\ IF o = "fail" \/ (apc["couponsDotCom"] = "userAgent" /\ ~isValidUrl(purl))
       THEN /\ ScrapeExits("closeThrow", <<>>)
            /\ UNCHANGED mainPage
       ELSE /\ apc' = [apc EXCEPT !["couponsDotCom"] =
                         CASE @ = "newPage"   -> "viewport"
                           [] @ = "viewport"  -> "intercept"
                           [] @ = "intercept" -> "userAgent"
                           [] OTHER           -> "goto"]
            /\ mainPage' = IF apc["couponsDotCom"] = "newPage"
                             THEN [mainPage EXCEPT !["couponsDotCom"] =
                                     [opened |-> TRUE, closes |-> 0]]
                             ELSE mainPage
            /\ UNCHANGED <<spc, coupons, browser>>
  /\ UNCHANGED <<deployment, hpc, purl, resp, ares, popups, cards, card, popupCode,
                 cvars, rvars, gvars, svars>>

\* page.goto and page.waitForSelector, part_001 125-130
navigate_snapshot(o) ==
  /\ deployment = "snapshot"
  /\ apc["couponsDotCom"] \in {"goto", "waitSel"}
  /\ o \in Outcomes
  /\ IF o = "fail" /\ apc["couponsDotCom"] = "goto"
       THEN ScrapeExits("closeThrow", <<>>)
       ELSE /\ apc' = [apc EXCEPT !["couponsDotCom"] =
                         IF @ = "goto" THEN "waitSel"
                         ELSE IF o = "ok" THEN "query" ELSE "fallback"]
            /\ UNCHANGED <<spc, coupons, browser>>
  /\ UNCHANGED <<deployment, hpc, purl, resp, ares, mainPage, popups, cards, card,
                 popupCode, cvars, rvars, gvars, svars>>

\* the fallback scrape, part_001 131-138
fallbackScrape(o, texts) ==
  /\ deployment = "snapshot"
  /\ apc["couponsDotCom"] = "fallback"
  /\ o \in Outcomes
  /\ IF o = "ok" /\ Len(fallbackCodes(texts)) > 0
       THEN ScrapeExits("closeReturn",
                        SubSeq(fallbackCodes(texts), 1,
                               Min(Len(fallbackCodes(texts)), MaxCoupons)))
       ELSE ScrapeExits("closeThrow", <<>>)
  /\ UNCHANGED <<deployment, hpc, purl, resp, ares, mainPage, popups, cards, card,
                 popupCode, cvars, rvars, gvars, svars>>

\* page.$$ and cards.slice(0, 5), part_001 141-145
queryCards_snapshot(o, n) ==
  /\ deployment = "snapshot"
  /\ apc["couponsDotCom"] = "query"
  /\ o \in Outcomes
  /\ IF o = "fail"
       THEN ScrapeExits("closeThrow", <<>>) /\ UNCHANGED <<cards, card>>
     ELSE IF n = 0
       THEN ScrapeExits("closeReturn", <<>>) /\ UNCHANGED <<cards, card>>
       ELSE /\ cards' = Min(n, SliceCards)
            /\ card' = 1
            /\ apc' = [apc EXCEPT !["couponsDotCom"] = "evaluate"]
            /\ UNCHANGED <<spc, coupons, browser>>
  /\ UNCHANGED <<deployment, hpc, purl, resp, ares, mainPage, popups, popupCode,
                 cvars, rvars, gvars, svars>>

\* handleVoucherCard has returned couponData, part_001 146-154
CardReturns_snapshot(couponData, b) ==
  LET got == IF couponData # NoCoupon THEN Append(coupons, couponData) ELSE coupons
  IN  IF Len(got) >= MaxCoupons \/ card >= cards
        THEN /\ spc' = "closeReturn"
             /\ coupons' = got
             /\ browser' = [b EXCEPT !.closes = @ + 1]
             /\ apc' = [apc EXCEPT !["couponsDotCom"] = "done"]
             /\ UNCHANGED card
        ELSE /\ card' = card + 1
             /\ coupons' = got
             /\ browser' = b
             /\ apc' = [apc EXCEPT !["couponsDotCom"] = "evaluate"]
             /\ UNCHANGED spc

\* handleVoucherCard up to the click, part_001 61-92: card.evaluate, card.$,
\* browser.on('targetcreated') and seeButton.click()
cardLookup_snapshot(o, present) ==
  /\ deployment = "snapshot"
  /\ apc["couponsDotCom"] \in {"evaluate", "button"}
  /\ o \in Outcomes
  /\ IF o = "fail" \/ ~present
       THEN CardReturns_snapshot(NoCoupon, browser)
     ELSE IF apc["couponsDotCom"] = "evaluate"
       THEN /\ apc' = [apc EXCEPT !["couponsDotCom"] = "button"]
            /\ UNCHANGED <<spc, coupons, browser, card>>
       ELSE /\ browser' = [browser EXCEPT !.listeners = @ + 1]
            /\ apc' = [apc EXCEPT !["couponsDotCom"] = "click"]
            /\ UNCHANGED <<spc, coupons, card>>
  /\ UNCHANGED <<deployment, hpc, purl, resp, ares, mainPage, popups, cards,
                 popupCode, cvars, rvars, gvars, svars>>

\* the browser emits 'targetcreated', part_001 84-89: the listeners stay
\* registered; a target of type page resolves newPagePromise
targetcreated_snapshot(kind) ==
  /\ deployment = "snapshot"
  /\ BrowserOpen
  /\ browser.listeners > 0
  /\ apc["couponsDotCom"] \in {"click", "popup"}
  /\ kind = "page"
  /\ popups' = Append(popups, [opened |-> TRUE, closes |-> 0])
  /\ apc' = [apc EXCEPT !["couponsDotCom"] =
               IF @ = "click" THEN "clickPopupOpen" ELSE "front"]
  /\ UNCHANGED <<deployment, hpc, purl, resp, spc, browser, ares, mainPage, cards,
                 card, popupCode, coupons, cvars, rvars, gvars, svars>>

\* seeButton.click() and popupPage.bringToFront() settle, part_001 92-94
cardClickFront_snapshot(o) ==
  /\ deployment = "snapshot"
  /\ apc["couponsDotCom"] \in {"click", "clickPopupOpen", "front"}
  /\ o \in Outcomes
  /\ IF o = "fail" THEN CardReturns_snapshot(NoCoupon, browser)
     ELSE /\ apc' = [apc EXCEPT !["couponsDotCom"] =
                       CASE @ = "click"          -> "popup"
                         [] @ = "clickPopupOpen" -> "front"
                         [] OTHER                -> "extract"]
          /\ UNCHANGED <<spc, coupons, browser, card>>
  /\ UNCHANGED <<deployment, hpc, purl, resp, ares, mainPage, popups, cards,
                 popupCode, cvars, rvars, gvars, svars>>

\* extractCodeFromPopup, part_001 43-58, then popupPage.close() is called,
\* at 98 without a code and at 106 with one
cardExtract_snapshot(c) ==
  /\ deployment = "snapshot"
  /\ apc["couponsDotCom"] = "extract"
  /\ c = NoCoupon \/ BrowserOpen
  /\ popupCode' = c
  /\ popups' = [popups EXCEPT ![Len(popups)].closes = @ + 1]
  /\ apc' = [apc EXCEPT !["couponsDotCom"] = "closePopup"]
  /\ UNCHANGED <<deployment, hpc, purl, resp, spc, browser, ares, mainPage, cards,
                 card, coupons, cvars, rvars, gvars, svars>>

\* popupPage.close() settles, part_001 98-114
cardClosePopup_snapshot(o) ==
  /\ deployment = "snapshot"
  /\ apc["couponsDotCom"] = "closePopup"
  /\ o \in Outcomes
  /\ CardReturns_snapshot(IF o = "fail" THEN NoCoupon ELSE popupCode, browser)
  /\ popupCode' = NoCoupon
  /\ UNCHANGED <<deployment, hpc, purl, resp, ares, mainPage, popups, cards,
                 cvars, rvars, gvars, svars>>

\* browser.close() of the finally settles, part_001 159, and the handler
\* answers, 173-183: a rejected close replaces the result of scrapeCoupons
browserClose_snapshot(o) ==
  /\ deployment = "snapshot"
  /\ spc \in {"closeReturn", "closeThrow"}
  /\ o \in {"ok", "fail"}
  /\ resp' = IF o = "ok" /\ spc = "closeReturn"
               THEN [status |-> 200, body |-> couponCodes(coupons)]
               ELSE [status |-> 500, body |-> <<>>]
  /\ spc' = "returned"
  /\ hpc' = "responded"
  /\ UNCHANGED <<deployment, purl, browser, apc, ares, mainPage, popups, cards,
                 card, popupCode, coupons, cvars, rvars, gvars, svars>>

SnapshotNext ==
  \/ \E u \in PupBodies : post_api_coupons_snapshot(u)
  \/ \E o \in {"ok", "fail"} : initializeBrowser_snapshot(o)
  \/ \E o \in {"ok", "fail"} : initializePage_snapshot(o)
  \/ \E o \in {"ok", "fail"} : navigate_snapshot(o)
  \/ \E o \in {"ok", "fail"} : \E texts \in FallbackTexts : fallbackScrape(o, texts)
  \/ \E o \in {"ok", "fail"} : \E n \in 0..(SliceCards + 1) : queryCards_snapshot(o, n)
  \/ \E o \in {"ok", "fail"} : \E present \in BOOLEAN : cardLookup_snapshot(o, present)
  \/ \E kind \in {"page", "other"} : targetcreated_snapshot(kind)
  \/ \E o \in {"ok", "fail"} : cardClickFront_snapshot(o)
  \/ \E c \in CardOffers \cup {NoCoupon} : cardExtract_snapshot(c)
  \/ \E o \in {"ok", "fail"} : cardClosePopup_snapshot(o)
  \/ \E o \in {"ok", "fail"} : browserClose_snapshot(o)

PupInit ==
  /\ deployment \in {"server", "snapshot"}
  /\ hpc = "idle"
  /\ purl = NoUrl
  /\ resp = NoResponse
  /\ spc = "none"
  /\ browser = NoBrowser
  /\ apc = [a \in Adapters |-> "idle"]
  /\ ares = [a \in Adapters |-> NoCoupon]
  /\ mainPage = [a \in Adapters |-> NoPage]
  /\ popups = <<>>
  /\ cards = 0
  /\ card = 0
  /\ popupCode = NoCoupon
  /\ coupons = <<>>

\* the service takes the next request; the bookkeeping of the last one is dropped
next_request ==
  /\ hpc = "responded"
  /\ hpc' = "idle"
  /\ purl' = NoUrl
  /\ resp' = NoResponse
  /\ spc' = "none"
  /\ browser' = NoBrowser
  /\ apc' = [a \in Adapters |-> "idle"]
  /\ ares' = [a \in Adapters |-> NoCoupon]
  /\ mainPage' = [a \in Adapters |-> NoPage]
  /\ popups' = <<>>
  /\ cards' = 0
  /\ card' = 0
  /\ popupCode' = NoCoupon
  /\ coupons' = <<>>
  /\ UNCHANGED <<deployment, cvars, rvars, gvars, svars>>

ServerNext ==
  \/ \E u \in PupBodies : post_api_coupons_server(u)
  \/ \E o \in {"ok", "noToken", "connectFails"} : initializeBrowser_server(o)
  \/ \E a \in Adapters : \E o \in {"ok", "fail"} : initializePage(a, o)
  \/ \E a \in Adapters : \E o \in {"ok", "fail"} : navigate(a, o)
  \/ \E o \in {"ok", "fail"} : \E offers \in FollowOffers : followOffers(o, offers)
  \/ \E o \in {"ok", "fail"} : \E n \in 0..MaxCards : queryCards(o, n)
  \/ \E o \in {"ok", "fail"} : \E present \in BOOLEAN : cardLookup(o, present)
  \/ \E kind \in {"page", "other"} : targetcreated(kind)
  \/ \E o \in {"ok", "fail"} : cardClick(o)
  \/ \E o \in {"ok", "fail"} : cardFront(o)
  \/ \E c \in CardOffers \cup {NoCoupon} : cardExtract(c)
  \/ \E o \in {"ok", "fail"} : cardClosePopup(o)
  \/ \E a \in Adapters : \E o \in {"ok", "fail"} : closePage(a, o)
  \/ PromiseAll_settles
  \/ \E o \in {"ok", "fail"} : browserClose_server(o)

(***************************************************************************)
(* Concurrent requests of the puppeteer service.  Each invocation of       *)
(* scrapeCoupons keeps the browser it obtained in its own local variable   *)
(* (server.ts 247 and 250, part_001 118); its adapters and its finally use *)
(* that variable.  A session records the invocations whose adapters are    *)
(* running on it, those that ever ran on it, those that called close() on  *)
(* it, and whether close() was called while an adapter was running on it.  *)
(***************************************************************************)
MaxConc == 3

Invocations == 1..MaxConc

\* a faulty scrapeCoupons that keeps the browser in one variable shared by
\* all invocations, holding the last one connected: C23 fails with it
browserOf_lastConnected(r) == Len(sess)

\* the browser an invocation's adapters and finally refer to
browserOf(r) == inv[r].browser

NewSession(r) ==
  [owner |-> r, running |-> {}, used |-> {}, closedBy |-> {}, closedInUse |-> FALSE]

\* scrapeCoupons(url) is called, server.ts 246-250
sc_call(r) ==
  /\ inv[r].pc = "idle"
  /\ inv' = [inv EXCEPT ![r].pc = "connect"]
  /\ UNCHANGED <<sess, cvars, rvars, pvars, gvars>>

\* browser = await initializeBrowser(), server.ts 250 (part_001 118)
sc_initializeBrowser(r, o) ==
  /\ inv[r].pc = "connect"
  /\ IF o = "ok"
       THEN /\ sess' = Append(sess, NewSession(r))
            /\ inv' = [inv EXCEPT ![r] = [pc |-> "start", browser |-> Len(sess) + 1]]
       ELSE /\ inv' = [inv EXCEPT ![r].pc = "done"]
            /\ UNCHANGED sess
  /\ UNCHANGED <<cvars, rvars, pvars, gvars>>

\* the adapters are started with browser, server.ts 253-256 (part_001 120)
sc_adaptersStart(r) ==
  /\ inv[r].pc = "start"
  /\ sess' = [sess EXCEPT ![browserOf(r)].running = @ \cup {r},
                          ![browserOf(r)].used = @ \cup {r}]
  /\ inv' = [inv EXCEPT ![r].pc = "running"]
  /\ UNCHANGED <<cvars, rvars, pvars, gvars>>

\* the adapters have settled and the finally calls browser.close(),
\* server.ts 270-279 (part_001 158-160)
sc_finally(r) ==
  /\ inv[r].pc = "running"
  /\ LET left == [s \in 1..Len(sess) |-> [sess[s] EXCEPT !.running = @ \ {r}]]
         b    == browserOf(r)
     IN  sess' = [left EXCEPT ![b].closedBy = @ \cup {r},
                              ![b].closedInUse = @ \/ left[b].running # {}]
  /\ inv' = [inv EXCEPT ![r].pc = "done"]
  /\ UNCHANGED <<cvars, rvars, pvars, gvars>>

SessionsInit ==
  /\ inv = [r \in Invocations |-> [pc |-> "idle", browser |-> 0]]
  /\ sess = <<>>

SessionsNext ==
  \/ \E r \in Invocations : sc_call(r)
  \/ \E r \in Invocations : \E o \in {"ok", "fail"} : sc_initializeBrowser(r, o)
  \/ \E r \in Invocations : sc_adaptersStart(r)
  \/ \E r \in Invocations : sc_finally(r)

(***************************************************************************)
(* The specifications                                                      *)
(***************************************************************************)
\* the other parts of the program at rest
PupIdle == PupInit /\ deployment = "server"

GrammarIdle == GrammarInit /\ gcCode = <<>>

\* the puppeteer services
Init == CacheInit /\ RankInit /\ PupInit /\ GrammarIdle /\ SessionsInit

Next == ServerNext \/ SnapshotNext \/ next_request

Spec == Init /\ [][Next]_vars

\* the event loop runs a continuation that can run, and a browser that can
\* emit an event does so
SpecLive == Spec /\ WF_vars(Next)

\* the cached handler
InitCache == CacheInit /\ RankInit /\ PupIdle /\ GrammarIdle /\ SessionsInit

SpecCache == InitCache /\ [][CacheNext]_vars

\* selectBestCodes
SpecRank == InitCache /\ [][RankNext]_vars

\* isPotentialCouponCode
InitGrammar == CacheInit /\ RankInit /\ PupIdle /\ GrammarInit /\ SessionsInit

SpecGrammar == InitGrammar /\ [][GrammarNext]_vars

\* concurrent invocations of scrapeCoupons
SpecSessions == InitCache /\ [][SessionsNext]_vars

(***************************************************************************)
(* Claims about the cached handler (SpecCache)                             *)
(***************************************************************************)
Done(j) == j \in 1..Len(req) /\ req[j].pc = "done"

\* request j read an entry that was already past its ttl
ReadExpired(r) == r.seen # NoEntry /\ r.seen.writer \notin r.live

\* C4 as stated: of two calls with the same url, the second made within the
\* ttl window of the first's cache write, the second returns the first's
\* result and invokes no adapter.
C4_SecondCallIdentical ==
  \A j \in 1..Len(req) : \A i \in req[j].live :
     Done(j) => req[j].body = req[i].body /\ req[j].calls = 0

\* C4 amended: a call made within the ttl window of an earlier call's cache
\* write invokes no adapter and is answered from the cache, and it returns
\* the earlier call's result whenever that call's entry is the one still
\* cached (no other request for the url has rewritten it in between).
C4_SecondCallServedFromCache ==
  \A j \in 1..Len(req) : \A i \in req[j].live :
     /\ Done(j)
     /\ req[j].status = 200
     /\ req[j].calls = 0
     /\ req[j].body = req[j].seen.data
     /\ req[j].seen.writer = i => req[j].body = req[i].body

C4_Witness ==
  \E j \in 1..Len(req) : \E i \in req[j].live :
     /\ req[j].seen.writer = i
     /\ req[j].body = req[i].body
     /\ Len(req[j].body) = 1
     /\ now >= req[i].wroteAt + CACHE_DURATION

\* C5: a cache entry is served only while now - timestamp <= CACHE_DURATION
\* (one hour); a read past that returns nothing and removes the entry.
C5_NeverServedPastTtl ==
  /\ CACHE_DURATION = 3600000
  /\ \A u \in CacheKeys :
        LET got   == getCachedResult(cache, u, now)
            fresh == cache[u] # NoEntry /\ now - cache[u].timestamp <= 3600000
        IN  /\ got.found <=> fresh
            /\ got.found => got.data = cache[u].data /\ got.cache = cache
            /\ ~got.found => got.cache = [cache EXCEPT ![u] = NoEntry]
  /\ \A j \in 1..Len(req) :
        /\ req[j].seen # NoEntry /\ req[j].calls = 0 => req[j].seen.writer \in req[j].live
        /\ ReadExpired(req[j]) => req[j].calls >= 1

C5_Witness ==
  \E j \in 1..Len(req) :
     /\ ReadExpired(req[j])
     /\ req[j].calls >= 1
     /\ req[j].pc = "scrape"
     /\ cache[req[j].url] = NoEntry

\* C6: a call that finds the entry for its url past the ttl invokes the
\* adapters afresh, and when it succeeds the entry for the url is the list
\* it answers with, stamped with the time of that write.
C6_FreshAfterTtl ==
  [][ /\ Len(req') = Len(req) + 1 =>
           LET u == req'[Len(req')].url
           IN  (u \in CacheKeys /\ cache[u] # NoEntry
                  /\ now - cache[u].timestamp > CACHE_DURATION)
                 => /\ req'[Len(req')].pc = "scrape"
                    /\ req'[Len(req')].calls = 1
                    /\ cache'[u] = NoEntry
      /\ \A i \in 1..Len(req) :
           (ReadExpired(req[i]) /\ req[i].pc # "done" /\ req'[i].pc = "done"
              /\ req'[i].status = 200)
             => cache'[req[i].url] =
                  [data |-> req'[i].body, timestamp |-> now', writer |-> i]
    ]_vars

C6_Witness ==
  \E i \in 1..Len(req) :
     /\ ReadExpired(req[i])
     /\ Done(i)
     /\ req[i].status = 200
     /\ cache[req[i].url].writer = i
     /\ cache[req[i].url].timestamp > req[i].seen.timestamp + CACHE_DURATION

\* C7 as stated: a request with a valid absolute URL answers with at most
\* three strings, each accepted by isPotentialCouponCode, or with an error.
C7_ResponseCodesMatchGrammar ==
  \A j \in 1..Len(req) :
     (Done(j) /\ req[j].url \in CacheKeys) =>
        \/ req[j].status = 500
        \/ /\ req[j].status = 200
           /\ Len(req[j].body) <= 3
           /\ \A k \in 1..Len(req[j].body) : isPotentialCouponCode(req[j].body[k])

\* C12: a request for https://www.examplestore.com whose scrape returns no
\* candidate has the slug examplestore and is answered 200 with exactly
\* EXAMPLESTORE10, WELCOME10, SAVE15, in that order, whatever else happened.
C12_ExampleStoreEndToEnd ==
  [][ \A i \in 1..Len(req) : \A f \in FetchChoices :
        ( /\ req[i].url = "https://www.examplestore.com"
          /\ scrapeCouponCodes(f) = <<>>
          /\ scrape_returns(i, f) )
        => /\ extractStoreName(req[i].url) =
                <<"e","x","a","m","p","l","e","s","t","o","r","e">>
           /\ req'[i].pc = "done"
           /\ req'[i].status = 200
           /\ req'[i].body = <<EXAMPLESTORE10, WELCOME10, SAVE15>>
    ]_vars

C12_Witness ==
  \E i \in 1..Len(req) :
     /\ Done(i)
     /\ req[i].url = "https://www.examplestore.com"
     /\ req[i].origin = "placeholder"
     /\ req[i].calls = 1
     /\ req[i].status = 200
     /\ req[i].body = <<EXAMPLESTORE10, WELCOME10, SAVE15>>

\* C16 as stated: a response of placeholder codes and a response of
\* discovered codes are never represented identically.
C16_PlaceholdersDistinguishable ==
  \A i, j \in 1..Len(req) :
     ( /\ Done(i) /\ req[i].origin = "placeholder"
       /\ Done(j) /\ req[j].origin = "discovered" )
     => <<req[i].status, req[i].body>> # <<req[j].status, req[j].body>>

(***************************************************************************)
(* Claims about selectBestCodes (SpecRank)                                 *)
(***************************************************************************)
Ranked == rkPc = "ranked"

\* the first candidate with this code that is verified, else the first with it
KeptFor(c) ==
  LET same     == {k \in 1..Len(rkIn) : rkIn[k].code = c}
      verified == {k \in same : rkIn[k].verified}
      pick     == IF verified # {} THEN verified ELSE same
  IN  rkIn[CHOOSE k \in pick : \A m \in pick : k <= m]

RankedAhead(a, b) ==
  \/ a.verified /\ ~b.verified
  \/ a.verified = b.verified /\ a.discountPercent > b.discountPercent
  \/ /\ a.verified = b.verified
     /\ a.discountPercent = b.discountPercent
     /\ sourceRank(a.source) > sourceRank(b.source)

\* C10 as stated: the output is ordered by verified descending, then
\* discountPercent descending, then source priority: no entry stands behind
\* one it is ranked ahead of.
C10_RankedByVerifiedDiscountSource ==
  Ranked =>
    \A i, j \in 1..Len(rkOut) : i < j => ~RankedAhead(rkOut[j], rkOut[i])

(***************************************************************************)
(* Claims about the puppeteer services (Spec)                              *)
(***************************************************************************)
Responded == hpc = "responded"

\* C1 as stated: a request whose url does not parse is rejected, and it
\* acquires no browser and starts no adapter.
C1_MalformedUrlRejected ==
  (purl # NoUrl /\ ~isValidUrl(purl)) =>
     /\ ~browser.acquired
     /\ \A a \in Adapters : apc[a] = "idle"
     /\ Responded => resp.status = 400

\* C2: close() is never called twice on a browser, and when the request has
\* been answered it has been called exactly once on the browser the request
\* acquired; without a browser there is nothing to close.
C2_BrowserClosedExactlyOnce ==
  /\ browser.closes <= 1
  /\ ~browser.acquired => browser.closes = 0
  /\ (Responded /\ browser.acquired) => browser.closes = 1
  /\ spc = "returned" => Responded

C2_Witness ==
  /\ Responded
  /\ browser.acquired
  /\ browser.closes = 1
  /\ \E a \in Adapters : apc[a] = "rejected"
  /\ \E a \in Adapters : apc[a] \notin {"rejected", "fulfilled"}

\* C3 as stated: when an adapter invocation has ended, the page it opened
\* and every popup page it obtained have had close() called exactly once.
C3_PagesClosedExactlyOnce ==
  deployment = "server" =>
    \A a \in Adapters :
       apc[a] \in {"fulfilled", "rejected"} =>
          /\ mainPage[a].opened => mainPage[a].closes = 1
          /\ a = "couponsDotCom" =>
                \A i \in 1..Len(popups) : popups[i].closes = 1

\* C8 as stated: a response holds at most three codes, pairwise distinct
\* after upper-casing.
C8_ResponseCodesDistinct ==
  (Responded /\ resp.status = 200) =>
     /\ Len(resp.body) <= 3
     /\ \A i, j \in 1..Len(resp.body) :
           toUpperCase(resp.body[i]) = toUpperCase(resp.body[j]) => i = j

(***************************************************************************)
(* Claims about isPotentialCouponCode (SpecGrammar)                        *)
(***************************************************************************)
Checked == gcPc = "checked"

\* C11: SAVE15, WELCOME10 and 10OFF are accepted, DOCTYPE, HTTP and AB are
\* rejected, and a text is accepted only if, trimmed and upper-cased, it is
\* 4 to 15 long, matches one of the patterns and holds no blacklisted token.
C11_GrammarExamples ==
  Checked =>
    /\ gcCode \in {SAVE15, WELCOME10, OFF10} => gcAccepted
    /\ gcCode \in {DOCTYPE, HTTP, AB} => ~gcAccepted
    /\ gcAccepted =>
         LET c == toUpperCase(trim(gcCode))
         IN  /\ Len(c) \in 4..15
             /\ patterns(c)
             /\ \A term \in blacklist : ~includes(c, term)

C11_Witness ==
  /\ Checked
  /\ gcCode = <<" ">> \o SAVE10 \o <<"5", " ">>
  /\ gcAccepted

(***************************************************************************)
(* More claims about the puppeteer services (Spec, SpecLive)               *)
(***************************************************************************)
\* C13 as stated: whatever the other adapter's outcome, the candidate of an
\* adapter that succeeded is among those scrapeCoupons aggregates.
C13_SucceededAdaptersAggregated ==
  (deployment = "server" /\ spc \in {"close", "returned"}) =>
     \A a \in Adapters :
        (apc[a] = "fulfilled" /\ ares[a] # NoCoupon) =>
           \E i \in 1..Len(coupons) : coupons[i] = ares[a]

\* C14 as stated: a request for which no browser could be acquired is
\* answered with a failure, not with the 200 of a request that found nothing.
C14_NoBrowserIsReported ==
  (Responded /\ spc = "returned" /\ ~browser.acquired) => resp.status >= 400

\* C15 as stated: every request that runs is eventually answered.
C15_RequestCompletes == (hpc = "running") ~> Responded

\* C17 as stated: a popup page that has not been closed is the one of the
\* card being handled, between its creation and the call of close().
C17_PopupClosedBeforeReturn ==
  \A i \in 1..Len(popups) :
     popups[i].closes = 0 =>
        /\ i = Len(popups)
        /\ apc["couponsDotCom"] \in {"clickPopupOpen", "front", "extract"}

\* C18 as stated: a card whose click is followed by no popup page (the
\* listener is gone and nothing resolved newPagePromise) is skipped:
\* handleVoucherCard returns and the adapter goes on.
C18_NoPopupIsSkip ==
  ( /\ deployment = "server"
    /\ apc["couponsDotCom"] = "popup"
    /\ browser.listeners = 0
    /\ BrowserOpen )
  ~> (apc["couponsDotCom"] \in {"evaluate", "closePage"})

\* C19 as stated: a failed navigation or selector wait, and a fallback that
\* finds nothing, do not make scrapeCoupons throw or the adapter reject.
C19_NavigationFailureNotFatal ==
  [][ /\ ( \/ navigate_snapshot("fail")
           \/ \E texts \in FallbackTexts : fallbackScrape("ok", texts) )
        => spc' # "closeThrow"
      /\ \A a \in Adapters : navigate(a, "fail") => apc'[a] # "rejected"
    ]_vars

\* C20 as stated: the fallback extractor returns at most three candidates,
\* each accepted by isPotentialCouponCode.
C20_FallbackMatchesGrammar ==
  (\E i \in 1..Len(coupons) : coupons[i].source = "Fallback code") =>
     /\ Len(coupons) <= 3
     /\ \A i \in 1..Len(coupons) : isPotentialCouponCode(coupons[i].code)

(***************************************************************************)
(* Claims about concurrent requests (SpecSessions)                         *)
(***************************************************************************)
\* C23: no two invocations hold the same session; on every session only the
\* invocation that connected it runs adapters and calls close(), and close()
\* is never called on a session while an adapter is running on it.
C23_SessionsNotShared ==
  /\ \A r1, r2 \in Invocations :
        (r1 # r2 /\ inv[r1].browser # 0) => inv[r1].browser # inv[r2].browser
  /\ \A s \in 1..Len(sess) :
        /\ inv[sess[s].owner].browser = s
        /\ sess[s].used \subseteq {sess[s].owner}
        /\ sess[s].running \subseteq {sess[s].owner}
        /\ sess[s].closedBy \subseteq {sess[s].owner}
        /\ ~sess[s].closedInUse

C23_Witness ==
  \E r1, r2 \in Invocations :
     /\ r1 # r2
     /\ inv[r1].pc = "done"
     /\ inv[r1].browser # 0
     /\ sess[inv[r1].browser].closedBy = {r1}
     /\ inv[r2].pc = "running"
     /\ inv[r2].browser < inv[r1].browser
     /\ sess[inv[r2].browser].running = {r2}

(***************************************************************************)
(* More claims about the cached handler (SpecCache)                        *)
(***************************************************************************)
HasHyphen(s) == \E k \in 1..Len(s) : s[k] = "-"

\* C21: a non-empty ranked result of a pass is returned at once; the second
\* pass runs only after an empty first pass for a slug with a hyphen; the
\* placeholders are returned only when every pass that ran was empty.
C21_LastResortOrdering ==
  [][ \A i \in 1..Len(req) : \A f \in FetchChoices :
        LET slug   == extractStoreName(req[i].url)
            ranked == selectBestCodes(scrapeCouponCodes(f))
            Found  == /\ req'[i].pc = "done"
                      /\ req'[i].origin = "discovered"
                      /\ req'[i].body = codesOf(ranked)
                      /\ req'[i].calls = req[i].calls
            Placeholders ==
                      /\ req'[i].pc = "done"
                      /\ req'[i].origin = "placeholder"
                      /\ req'[i].body = generateCommonCodes(slug)
                      /\ req'[i].calls = req[i].calls
        IN  /\ scrape_returns(i, f) =>
                 /\ req[i].calls = 1
                 /\ IF ranked # <<>> THEN Found
                    ELSE IF HasHyphen(slug)
                      THEN /\ req'[i].pc = "altScrape"
                           /\ req'[i].calls = 2
                           /\ cache' = cache
                      ELSE Placeholders
            /\ altScrape_returns(i, f) =>
                 /\ req[i].calls = 2
                 /\ HasHyphen(slug)
                 /\ IF ranked # <<>> THEN Found ELSE Placeholders
    ]_vars

C21_Witness ==
  \E i \in 1..Len(req) :
     /\ Done(i)
     /\ req[i].url = "https://my-store.com"
     /\ req[i].calls = 2
     /\ req[i].origin = "placeholder"
     /\ \E j \in 1..Len(req) :
           /\ Done(j)
           /\ req[j].url = "https://my-store.com"
           /\ req[j].calls = 2
           /\ req[j].origin = "discovered"

\* C27: every cache entry holds 1 to 3 codes, and a request answered 200
\* after scraping leaves the entry for its url holding exactly the list it
\* answered with.
C27_CacheHoldsResponse ==
  [][ /\ \A u \in CacheKeys :
           cache'[u] # NoEntry => Len(cache'[u].data) \in 1..3
      /\ \A i \in 1..Len(req) :
           (req[i].pc # "done" /\ req'[i].pc = "done" /\ req'[i].status = 200)
             => /\ Len(req'[i].body) \in 1..3
                /\ cache'[req[i].url] # NoEntry
                /\ cache'[req[i].url].data = req'[i].body
    ]_vars

C27_Witness ==
  \E u1, u2 \in CacheKeys :
     /\ cache[u1] # NoEntry
     /\ cache[u2] # NoEntry
     /\ Len(cache[u1].data) = 1
     /\ Len(cache[u2].data) = 3
     /\ req[cache[u1].writer].body = cache[u1].data
     /\ req[cache[u2].writer].body = cache[u2].data

\* C28: a request answered on arrival (rejected, failed, or served from a
\* live entry) leaves the cache as it was; any step of a request for url u
\* leaves the entry of every other key as it was; time passing changes
\* nothing.
C28_CacheFrame ==
  [][ /\ Len(req') = Len(req) + 1 =>
           LET r == req'[Len(req')]
           IN  /\ r.pc = "done" => cache' = cache
               /\ \A u \in CacheKeys : u # r.url => cache'[u] = cache[u]
      /\ \A i \in 1..Len(req) :
           req'[i] # req[i] =>
              \A u \in CacheKeys : u # req[i].url => cache'[u] = cache[u]
      /\ req' = req => cache' = cache
    ]_vars

C28_Witness ==
  /\ \A u \in CacheKeys : cache[u] # NoEntry
  /\ \E i \in 1..Len(req) :
        /\ Done(i) /\ req[i].status = 200 /\ req[i].calls = 0
        /\ req[i].seen = cache[req[i].url]
  /\ \E u1, u2 \in CacheKeys : cache[u1].timestamp < cache[u2].timestamp

\* the slug as C24 describes it: the lower-cased hostname without a leading
\* "www.", cut before its first dot, with the four words removed
StripLeadingWww(h) ==
  IF Len(h) >= 4 /\ SubSeq(h, 1, 4) = <<"w","w","w",".">>
    THEN SubSeq(h, 5, Len(h)) ELSE h

FirstLabel(h) ==
  LET dots == {i \in 1..Len(h) : h[i] = "."}
  IN  IF dots = {} THEN h
      ELSE SubSeq(h, 1, (CHOOSE i \in dots : \A j \in dots : i <= j) - 1)

WithoutWords(s) ==
  replaceAll(replaceAll(replaceAll(replaceAll(s,
    <<"c","l","o","t","h","i","n","g">>, <<>>),
    <<"s","h","o","p">>, <<>>),
    <<"s","t","o","r","e">>, <<>>),
    <<"o","n","l","i","n","e">>, <<>>)

SlugAsStated(u) == WithoutWords(FirstLabel(StripLeadingWww(toLowerCase(hostname(u)))))

\* C24 as stated: the slug the handler computes for a request's url is the
\* lower-cased hostname without a leading www., cut before the first dot,
\* with clothing, shop, store and online removed.
C24_SlugAsStated ==
  \A j \in 1..Len(req) :
     req[j].calls >= 1 => extractStoreName(req[j].url) = SlugAsStated(req[j].url)

(***************************************************************************)
(* Claims about settling, listeners and teardown (Spec)                    *)
(***************************************************************************)
Settled(a) == apc[a] \in {"fulfilled", "rejected"}

InHandleVoucherCard ==
  apc["couponsDotCom"] \in
    {"button", "click", "clickPopupOpen", "popup", "front", "extract", "closePopup"}

\* C22 as stated: a request that ran adapters is answered only when every
\* adapter it started has settled.
C22_AnsweredAfterAllSettled ==
  (deployment = "server" /\ Responded /\ browser.acquired) =>
     \A a \in Adapters : Settled(a)

\* C25 as stated: at most one targetcreated listener is registered at a
\* time, and none once handleVoucherCard has returned.
C25_ListenerRemovedAfterUse ==
  /\ browser.listeners <= 1
  /\ ~InHandleVoucherCard => browser.listeners = 0

\* C26 as stated: when browser.close() has been called, both adapters have
\* finished and have closed the pages they opened.
C26_CloseAfterAdapters ==
  (deployment = "server" /\ browser.closes > 0) =>
     \A a \in Adapters :
        /\ Settled(a)
        /\ mainPage[a].opened => mainPage[a].closes > 0

=============================================================================
